---- MODULE Spec2Model ----
(***************************************************************************)
(* AdsorptionAnalysis: the Streamlit front end (src/kinetics.py holds the  *)
(* front-end script) and the four batch entry points it calls:             *)
(*   run_kinetic_fitting   (src/app.py)                                    *)
(*   run_isotherm_fitting  (src/isotherms.py)                              *)
(*   run_ftir_analysis     (src/ftir.py)                                   *)
(*   run_xrd_analysis      (src/xrd.py)                                    *)
(* One action is one iteration of an entry point's loop over the sheets,   *)
(* the code after the loop, or the front end's handling of what the entry  *)
(* point returned or raised.  What lmfit's optimiser does on a series (it  *)
(* raises, or it returns a fit with some residual) is an input of the      *)
(* iteration; numpy, pandas and scipy.signal.find_peaks are modelled by    *)
(* what they compute.                                                      *)
(***************************************************************************)
EXTENDS Integers, Sequences, FiniteSets, TLC

VARIABLES
    analysis_type,    \* the front end's selectbox: which entry point is called
    sheet_names,      \* excel_data.sheet_names, in workbook order
    peak_prominence,  \* run_xrd_analysis parameter
    num_peaks,        \* run_xrd_analysis parameter
    pc,               \* "loop", "returned", "raised", then the front end's outcome
    i,                \* position in sheet_names of the next sheet to process
    read_ok,          \* whether the last pd.read_excel call returned a frame
    rows_left,        \* data rows of the workbook that no sheet read so far holds
    data,             \* rows of the sheet read last: <<[x |-> cell, y |-> cell], ...>>
    results_list,     \* kinetics / isotherm: the records appended so far
    fit_log,          \* every Model.fit call made so far: sheet, model, raised or not
    summary_results,  \* FTIR / XRD: the records appended so far
    sorted_indices,   \* FTIR: the row order of the sheet read last after the sort
    closest_idx,      \* FTIR: per reference, the position matched in the sorted axis
    prominent_peaks,  \* XRD: row positions selected in the sheet read last
    peak_details,     \* XRD / FTIR: the per-sheet table written for the sheet read last
    summary_df,       \* the first value returned (None or the table)
    figure_paths      \* the list of figure paths

vars == <<analysis_type, sheet_names, peak_prominence, num_peaks, pc, i, read_ok,
          rows_left, data, results_list, fit_log, summary_results, sorted_indices,
          closest_idx, prominent_peaks, peak_details, summary_df, figure_paths>>

----------------------------------------------------------------------------
(* Bounds of the model *)

\* sheets in the workbook
MaxSheets == 2
\* data rows in all the sheets of a kinetics / isotherm workbook
MaxFitRows == 4
\* data rows in all the sheets of an FTIR workbook
MaxFtirRows == 3
\* data rows in all the sheets of an XRD workbook
MaxXrdRows == 6

----------------------------------------------------------------------------
(* Values *)

\* What an entry point returns first: None, or a DataFrame of rows.
None == [is_none |-> TRUE, rows |-> <<>>]
DataFrame(rows) == [is_none |-> FALSE, rows |-> rows]

\* A spreadsheet cell: <<>> is a missing value (NaN), <<v>> holds v.
NaN == <<>>
Cell(v) == <<v>>

RECURSIVE SumSeq(_)
SumSeq(s) == IF s = <<>> THEN 0 ELSE Head(s) + SumSeq(Tail(s))

RECURSIVE Flatten(_)
Flatten(s) == IF s = <<>> THEN <<>> ELSE Head(s) \o Flatten(Tail(s))

Column(rows, c) == [k \in 1..Len(rows) |-> rows[k][c]]

\* Series.dropna().values: the non-missing values of one column, in row order.
DropNa(col) == Flatten(col)

\* n * sum((q - mean(q))^2) = n^2 * np.var(q): zero exactly for a constant series.
SumSqDev(q) == Len(q) * SumSeq([k \in 1..Len(q) |-> q[k] * q[k]]) - SumSeq(q) * SumSeq(q)

\* 1 - res / tot in IEEE arithmetic on numpy floats: a zero denominator does not
\* raise, it gives nan (0/0) or -inf (1 - x/0, x > 0).
RSquared(res, tot) ==
    IF tot = 0
    THEN IF res = 0 THEN [kind |-> "nan", num |-> 0, den |-> 0]
                    ELSE [kind |-> "-inf", num |-> 0, den |-> 0]
    ELSE [kind |-> "finite", num |-> tot - res, den |-> tot]

----------------------------------------------------------------------------
(* Inputs *)

SheetIds == 1..MaxSheets

\* Workbooks: one to MaxSheets sheets with distinct names, in any order
\* (a name is modelled by its rank in string order).
Workbooks ==
    UNION {{s \in [1..n -> SheetIds] : \A a, b \in 1..n : a # b => s[a] # s[b]} :
           n \in 1..MaxSheets}

\* The fitting entry points never compare or sort sheet names: their workbooks
\* are taken with the sheets in name order.
FitWorkbooks == {[k \in 1..n |-> k] : n \in 1..MaxSheets}

XCells == {NaN, Cell(1)}
YCells == {NaN, Cell(1), Cell(2)}
FitRows == [x : XCells, y : YCells]
FitSheets(max) == UNION {[1..n -> FitRows] : n \in 0..max}

\* Both parameters of each model are free (q_e, k1; q_e, k2; q_m, k_L; k_F, n).
NumParams == 2

Failed == [ok |-> FALSE, res |-> 0]

\* What Model.fit may do on a series: raise, or return a result whose residual
\* measure is res.  With fewer points than parameters the least-squares
\* routine raises.
Residuals == {0, 1}    \* the fit is exact, or it is not
FitOutcomes(y_data) ==
    IF Len(y_data) < NumParams THEN {Failed}
    ELSE {Failed} \cup {[ok |-> TRUE, res |-> r] : r \in Residuals}

----------------------------------------------------------------------------
(* Records *)

FitRecord(sheet, model, outcome, y_data) ==
    [Sheet |-> sheet, Model |-> model, R2 |-> RSquared(outcome.res, SumSqDev(y_data))]

Attempt(sheet, model, outcome) == [Sheet |-> sheet, Model |-> model, ok |-> outcome.ok]

Figure(kind, sheet) == [fig |-> kind, sheet |-> sheet]

----------------------------------------------------------------------------
(* run_kinetic_fitting *)

\* The try block: both fits, one except clause.
KineticTry(sheet, q_data, o1, o2) ==
    IF ~o1.ok
    THEN [records |-> <<>>,
          log |-> <<Attempt(sheet, "Pseudo First Order", o1)>>,
          completed |-> FALSE]
    ELSE IF ~o2.ok
    THEN [records |-> <<FitRecord(sheet, "Pseudo First Order", o1, q_data)>>,
          log |-> <<Attempt(sheet, "Pseudo First Order", o1),
                    Attempt(sheet, "Pseudo Second Order", o2)>>,
          completed |-> FALSE]
    ELSE [records |-> <<FitRecord(sheet, "Pseudo First Order", o1, q_data),
                        FitRecord(sheet, "Pseudo Second Order", o2, q_data)>>,
          log |-> <<Attempt(sheet, "Pseudo First Order", o1),
                    Attempt(sheet, "Pseudo Second Order", o2)>>,
          completed |-> TRUE]

\* np.max(q_data) raises ValueError on an empty array; ax.plot(t_data, q_data)
\* raises ValueError when the two lengths differ.  Neither is inside the try.
KineticSetupRaises(t_data, q_data) ==
    \/ q_data = <<>>
    \/ Len(t_data) # Len(q_data)

KineticSheet ==
    /\ analysis_type = "Kinetics"
    /\ pc = "loop"
    /\ i <= Len(sheet_names)
    /\ \E readable \in BOOLEAN, rows \in FitSheets(rows_left) :
        LET sheet == sheet_names[i]
            t_data == DropNa(Column(rows, "x"))
            q_data == DropNa(Column(rows, "y"))
        IN  /\ read_ok' = readable
            /\ data' = IF readable THEN rows ELSE <<>>
            /\ rows_left' = rows_left - Len(rows)
            /\ IF ~readable \/ KineticSetupRaises(t_data, q_data)
               THEN /\ (readable \/ rows = <<>>)
                    /\ pc' = "raised"
                    /\ UNCHANGED <<i, results_list, fit_log, figure_paths>>
               ELSE \E o1, o2 \in FitOutcomes(q_data) :
                        LET t == KineticTry(sheet, q_data, o1, o2)
                        IN  /\ (o1.ok \/ o2 = Failed)
                            /\ results_list' = results_list \o t.records
                            /\ fit_log' = fit_log \o t.log
                            /\ figure_paths' =
                                   IF t.completed
                                   THEN Append(figure_paths, Figure("Kinetic_Fit", sheet))
                                   ELSE figure_paths
                            /\ i' = i + 1
                            /\ pc' = "loop"
    /\ UNCHANGED <<analysis_type, sheet_names, peak_prominence, num_peaks,
                   summary_results, sorted_indices, closest_idx, prominent_peaks,
                   peak_details, summary_df>>

----------------------------------------------------------------------------
(* run_isotherm_fitting *)

\* (mutant) a record is appended whether or not the fit raised
IsothermTryPlaceholder(sheet, model, outcome, qe_data) ==
    <<FitRecord(sheet, model, outcome, qe_data)>>

\* One try block per model: the record of a fit that returned, nothing otherwise.
IsothermTry(sheet, model, outcome, qe_data) ==
    IF outcome.ok THEN <<FitRecord(sheet, model, outcome, qe_data)>> ELSE <<>>

IsothermSkips(Ce_data, qe_data) == Len(Ce_data) = 0 \/ Len(qe_data) = 0

\* ax.scatter(Ce_data, qe_data) raises ValueError when the two sizes differ.
IsothermSetupRaises(Ce_data, qe_data) == Len(Ce_data) # Len(qe_data)

IsothermSheet ==
    /\ analysis_type = "Isotherm"
    /\ pc = "loop"
    /\ i <= Len(sheet_names)
    /\ \E readable \in BOOLEAN, rows \in FitSheets(rows_left) :
        LET sheet == sheet_names[i]
            Ce_data == DropNa(Column(rows, "x"))
            qe_data == DropNa(Column(rows, "y"))
        IN  /\ read_ok' = readable
            /\ data' = IF readable THEN rows ELSE <<>>
            /\ rows_left' = rows_left - Len(rows)
            /\ IF ~readable
               THEN /\ rows = <<>>
                    /\ pc' = "raised"
                    /\ UNCHANGED <<i, results_list, fit_log, figure_paths>>
               ELSE IF IsothermSkips(Ce_data, qe_data)
               THEN /\ i' = i + 1
                    /\ pc' = "loop"
                    /\ UNCHANGED <<results_list, fit_log, figure_paths>>
               ELSE IF IsothermSetupRaises(Ce_data, qe_data)
               THEN /\ pc' = "raised"
                    /\ UNCHANGED <<i, results_list, fit_log, figure_paths>>
               ELSE \E o1, o2 \in FitOutcomes(qe_data) :
                        /\ results_list' = results_list
                               \o IsothermTry(sheet, "Langmuir", o1, qe_data)
                               \o IsothermTry(sheet, "Freundlich", o2, qe_data)
                        /\ fit_log' = fit_log \o <<Attempt(sheet, "Langmuir", o1),
                                                   Attempt(sheet, "Freundlich", o2)>>
                        /\ figure_paths' =
                               Append(figure_paths, Figure("Isotherm_Fit", sheet))
                        /\ i' = i + 1
                        /\ pc' = "loop"
    /\ UNCHANGED <<analysis_type, sheet_names, peak_prominence, num_peaks,
                   summary_results, sorted_indices, closest_idx, prominent_peaks,
                   peak_details, summary_df>>

----------------------------------------------------------------------------
(* After the loop of either fitting entry point *)

\* summary_df = pd.DataFrame(results_list); None is returned when it is empty.
FitSummary(records) == IF records = <<>> THEN None ELSE DataFrame(records)

FitFinish ==
    /\ analysis_type \in {"Kinetics", "Isotherm"}
    /\ pc = "loop"
    /\ i > Len(sheet_names)
    /\ summary_df' = FitSummary(results_list)
    /\ pc' = "returned"
    /\ UNCHANGED <<analysis_type, sheet_names, peak_prominence, num_peaks, i, read_ok,
                   rows_left, data, results_list, fit_log, summary_results,
                   sorted_indices, closest_idx, prominent_peaks, peak_details,
                   figure_paths>>

----------------------------------------------------------------------------
(* Sorting as numpy and pandas do it *)

MinOf(S) == CHOOSE m \in S : \A v \in S : m <= v
MaxOf(S) == CHOOSE m \in S : \A v \in S : v <= m
Abs(v) == IF v < 0 THEN 0 - v ELSE v

\* The orders in which the positions in `left` may follow one another when
\* sorted ascending by keys: np.argsort with the default kind is not stable, so
\* equal keys may come out in either order.
RECURSIVE AscendingFrom(_, _)
AscendingFrom(keys, left) ==
    IF left = {} THEN {<<>>}
    ELSE LET m == MinOf({keys[k] : k \in left})
         IN  UNION {{<<k>> \o rest : rest \in AscendingFrom(keys, left \ {k})} :
                    k \in {j \in left : keys[j] = m}}

\* np.argsort(keys)
ArgSorts(keys) == AscendingFrom(keys, 1..Len(keys))

Reverse(s) == [k \in 1..Len(s) |-> s[Len(s) + 1 - k]]

\* Python's s[-n:]: the last n items for n > 0, everything for n = 0 (-0 is 0),
\* everything after the first -n items for n < 0.
LastItems(s, n) ==
    LET start == IF n > 0 THEN MaxOf({Len(s) - n, 0})
                 ELSE MinOf({0 - n, Len(s)})
    IN  SubSeq(s, start + 1, Len(s))

\* Whether record a goes before record b, a different record, in
\* sort_values(by=['Sample', ycol], ascending=[True, False])
SummaryBefore(a, b, ycol) ==
    \/ a.Sample < b.Sample
    \/ a.Sample = b.Sample /\ a[ycol] > b[ycol]

\* sort_values on two columns is a stable sort: insertion from the left keeps
\* records that compare equal in the order they were appended.
RECURSIVE InsertSorted(_, _, _)
InsertSorted(sorted, r, ycol) ==
    IF sorted = <<>> THEN <<r>>
    ELSE IF SummaryBefore(r, Head(sorted), ycol)
    THEN <<r>> \o sorted
    ELSE <<Head(sorted)>> \o InsertSorted(Tail(sorted), r, ycol)

RECURSIVE SortFrom(_, _, _)
SortFrom(done, todo, ycol) ==
    IF todo = <<>> THEN done
    ELSE SortFrom(InsertSorted(done, Head(todo), ycol), Tail(todo), ycol)

\* (mutant) the sorted frame is dropped: the records stay in append order
SortSummaryNotApplied(records, ycol) == records

SortSummary(records, ycol) == SortFrom(<<>>, records, ycol)

----------------------------------------------------------------------------
(* run_xrd_analysis *)

Intensities == {0, 100, 250}

\* A diffraction pattern: the 2Theta column is the scan position 1..n, the
\* Intensity column is drawn.
XrdSheets(max) ==
    UNION {{[k \in 1..n |-> [x |-> k, y |-> v[k]]] : v \in [1..n -> Intensities]} :
           n \in 0..max}

\* The first position at or after a where the plateau of height h ends, or the
\* last position of x.
RECURSIVE PlateauEnd(_, _, _)
PlateauEnd(x, a, h) ==
    IF a < Len(x) /\ x[a] = h THEN PlateauEnd(x, a + 1, h) ELSE a

\* scipy.signal.find_peaks' scan for local maxima from position k on: a sample
\* or a plateau of equal samples with a strictly lower sample on either side;
\* for a plateau the middle position, rounded down, is reported.
RECURSIVE LocalMaximaFrom(_, _)
LocalMaximaFrom(x, k) ==
    IF k >= Len(x) THEN <<>>
    ELSE IF x[k - 1] < x[k]
    THEN LET ahead == PlateauEnd(x, k + 1, x[k])
         IN  IF x[ahead] < x[k]
             THEN <<(k + ahead - 1) \div 2>> \o LocalMaximaFrom(x, ahead + 1)
             ELSE LocalMaximaFrom(x, k + 1)
    ELSE LocalMaximaFrom(x, k + 1)

\* (mutant) the last position of a plateau is reported instead of its middle
RECURSIVE LocalMaximaRightEdgeFrom(_, _)
LocalMaximaRightEdgeFrom(x, k) ==
    IF k >= Len(x) THEN <<>>
    ELSE IF x[k - 1] < x[k]
    THEN LET ahead == PlateauEnd(x, k + 1, x[k])
         IN  IF x[ahead] < x[k]
             THEN <<ahead - 1>> \o LocalMaximaRightEdgeFrom(x, ahead + 1)
             ELSE LocalMaximaRightEdgeFrom(x, k + 1)
    ELSE LocalMaximaRightEdgeFrom(x, k + 1)

LocalMaximaRightEdge(x) == LocalMaximaRightEdgeFrom(x, 2)

LocalMaxima(x) == LocalMaximaFrom(x, 2)

\* The lowest sample met walking from p in direction step until a sample
\* higher than x[p] or the end of the signal.
RECURSIVE LowestToward(_, _, _, _, _)
LowestToward(x, p, k, step, lowest) ==
    IF k < 1 \/ k > Len(x) THEN lowest
    ELSE IF x[k] > x[p] THEN lowest
    ELSE LowestToward(x, p, k + step, step, IF x[k] < lowest THEN x[k] ELSE lowest)

\* scipy.signal.peak_prominences
Prominence(x, p) ==
    x[p] - MaxOf({LowestToward(x, p, p, 0 - 1, x[p]), LowestToward(x, p, p, 1, x[p])})

\* find_peaks(intensity, prominence=threshold): the local maxima whose
\* prominence is at least the threshold, in position order.
FindPeaks(x, threshold) ==
    SelectSeq(LocalMaxima(x), LAMBDA p : Prominence(x, p) >= threshold)

\* peaks[order[-num:]] where order is np.argsort of the prominences
SelectPeaks(found, order, num) ==
    LET kept == LastItems(order, num)
    IN  [k \in 1..Len(kept) |-> found[kept[k]]]

\* sort_values(by='Intensity', ascending=False): the orders of the selected
\* peaks in which no intensity is followed by a higher one.
DescendingSorts(keys) ==
    {Reverse(o) : o \in ArgSorts(keys)}

XrdRecord(sheet, rows, p) == [Sample |-> sheet, Theta |-> rows[p].x, Intensity |-> rows[p].y]

XrdSheet ==
    /\ analysis_type = "XRD"
    /\ pc = "loop"
    /\ i <= Len(sheet_names)
    /\ \E readable \in BOOLEAN, rows \in XrdSheets(rows_left) :
        LET sheet == sheet_names[i]
        IN  /\ read_ok' = readable
            /\ data' = IF readable THEN rows ELSE <<>>
            /\ rows_left' = rows_left - Len(rows)
            /\ i' = i + 1
            /\ pc' = "loop"
            /\ IF ~readable
               THEN /\ rows = <<>>
                    /\ UNCHANGED <<summary_results, prominent_peaks, peak_details,
                                   figure_paths>>
               ELSE \E intensity \in {Column(rows, "y")} :
                    \E found \in {FindPeaks(intensity, peak_prominence)} :
                    \E prominences \in {[k \in 1..Len(found) |->
                                            Prominence(intensity, found[k])]} :
                    \E order \in ArgSorts(prominences) :
                    \E chosen \in {SelectPeaks(found, order, num_peaks)} :
                    \E d \in DescendingSorts([k \in 1..Len(chosen) |->
                                                intensity[chosen[k]]]) :
                    \E details \in {[k \in 1..Len(d) |->
                                        XrdRecord(sheet, rows, chosen[d[k]])]} :
                        /\ prominent_peaks' = chosen
                        /\ peak_details' = details
                        /\ summary_results' = summary_results \o details
                        /\ figure_paths' = Append(figure_paths,
                                                  Figure("XRD_Pattern", sheet))
    /\ UNCHANGED <<analysis_type, sheet_names, peak_prominence, num_peaks,
                   results_list, fit_log, sorted_indices, closest_idx, summary_df>>

\* After the loop: pd.DataFrame([]) has no columns, so sort_values(by=['Sample',
\* 'Intensity']) raises KeyError when no record was appended.
XrdFinish ==
    /\ analysis_type = "XRD"
    /\ pc = "loop"
    /\ i > Len(sheet_names)
    /\ figure_paths' = Append(figure_paths, Figure("XRD_Pattern_All_Samples", 0))
    /\ IF summary_results = <<>>
       THEN pc' = "raised" /\ UNCHANGED summary_df
       ELSE /\ summary_df' = DataFrame(SortSummary(summary_results, "Intensity"))
            /\ pc' = "returned"
    /\ UNCHANGED <<analysis_type, sheet_names, peak_prominence, num_peaks, i, read_ok,
                   rows_left, data, results_list, fit_log, summary_results,
                   sorted_indices, closest_idx, prominent_peaks, peak_details>>

----------------------------------------------------------------------------
(* run_ftir_analysis *)

peaks == <<[wavenumber |-> 3400, label |-> "O-H Stretch (Alcohol)"],
           [wavenumber |-> 3400, label |-> "N-H Stretch (Amine)"],
           [wavenumber |-> 1700, label |-> "C=O Stretch (Carbonyl)"],
           [wavenumber |-> 2900, label |-> "C-H Stretch (Alkane)"],
           [wavenumber |-> 1650, label |-> "C=C Stretch (Alkene)"],
           [wavenumber |-> 2200, label |-> "C-C Stretch (Alkyne)"],
           [wavenumber |-> 1100, label |-> "C-O Stretch (Ether)"],
           [wavenumber |-> 1650, label |-> "C=N Stretch (Imine)"]>>

Wavenumbers == {3300, 3500}
Transmittances == {10, 20}
FtirRows == [x : Wavenumbers, y : Transmittances]
FtirSheets(max) == UNION {[1..n -> FtirRows] : n \in 0..max}

\* (mutant) the reversal is left out: the rows in ascending wavenumber order
SortedIndicesAscending(wavenumber) == ArgSorts(wavenumber)

\* np.argsort(wavenumber)[::-1]: the rows in descending wavenumber order
SortedIndices(wavenumber) == {Reverse(o) : o \in ArgSorts(wavenumber)}

\* (np.abs(axis - target)).argmin(): the first position of the smallest distance
ArgMinDistance(axis, target) ==
    MinOf({k \in 1..Len(axis) :
             \A j \in 1..Len(axis) : Abs(axis[k] - target) <= Abs(axis[j] - target)})

\* The loop over peaks: for each reference the position matched in the axis
MatchPeaks(axis, references) ==
    [r \in 1..Len(references) |-> ArgMinDistance(axis, references[r].wavenumber)]

\* The rows of peak_df: matched wavenumber and the transmittance at the same position
PeakData(wavenumber, transmittance, matched) ==
    [r \in 1..Len(matched) |->
        [Wavenumber |-> wavenumber[matched[r]], Transmittance |-> transmittance[matched[r]]]]

FtirRecord(sheet, row) ==
    [Sample |-> sheet, Wavenumber |-> row.Wavenumber, Transmittance |-> row.Transmittance]

FtirSheet ==
    /\ analysis_type = "FTIR"
    /\ pc = "loop"
    /\ i <= Len(sheet_names)
    /\ \E readable \in BOOLEAN, rows \in FtirSheets(rows_left) :
        LET sheet == sheet_names[i]
        IN  /\ read_ok' = readable
            /\ data' = IF readable THEN rows ELSE <<>>
            /\ rows_left' = rows_left - Len(rows)
            /\ IF ~readable
               THEN /\ rows = <<>>
                    /\ i' = i + 1
                    /\ pc' = "loop"
                    /\ UNCHANGED <<summary_results, sorted_indices, closest_idx,
                                   peak_details, figure_paths>>
               ELSE \E order \in SortedIndices(Column(rows, "x")) :
                    \E wavenumber \in {[k \in 1..Len(order) |-> rows[order[k]].x]},
                       transmittance \in {[k \in 1..Len(order) |-> rows[order[k]].y]} :
                        /\ sorted_indices' = order
                        /\ figure_paths' = Append(figure_paths,
                                                  Figure("FTIR_Spectrum", sheet))
                        /\ IF rows = <<>>
                           THEN \* argmin of an empty Series raises ValueError
                                /\ pc' = "raised"
                                /\ UNCHANGED <<i, summary_results, closest_idx,
                                               peak_details>>
                           ELSE \E matched \in {MatchPeaks(wavenumber, peaks)} :
                                \E peak_df \in {PeakData(wavenumber, transmittance,
                                                         matched)} :
                                    /\ closest_idx' = matched
                                    /\ peak_details' = peak_df
                                    /\ summary_results' = summary_results \o
                                           [r \in 1..Len(peak_df) |->
                                               FtirRecord(sheet, peak_df[r])]
                                    /\ i' = i + 1
                                    /\ pc' = "loop"
    /\ UNCHANGED <<analysis_type, sheet_names, peak_prominence, num_peaks,
                   results_list, fit_log, prominent_peaks, summary_df>>

\* After the loop: as in run_xrd_analysis, sort_values raises KeyError on the
\* frame built from an empty list.
FtirFinish ==
    /\ analysis_type = "FTIR"
    /\ pc = "loop"
    /\ i > Len(sheet_names)
    /\ figure_paths' = Append(figure_paths, Figure("FTIR_Spectrum_All_Samples", 0))
    /\ IF summary_results = <<>>
       THEN pc' = "raised" /\ UNCHANGED summary_df
       ELSE /\ summary_df' = DataFrame(SortSummary(summary_results, "Transmittance"))
            /\ pc' = "returned"
    /\ UNCHANGED <<analysis_type, sheet_names, peak_prominence, num_peaks, i, read_ok,
                   rows_left, data, results_list, fit_log, summary_results,
                   sorted_indices, closest_idx, prominent_peaks, peak_details>>

----------------------------------------------------------------------------
(* The front end: try / except around the entry point, then the display *)

AppOutcome(state, df) ==
    IF state = "raised" THEN "error"
    ELSE IF df # None THEN "summary"
    ELSE "no_results"

AppDisplay ==
    /\ pc \in {"returned", "raised"}
    /\ pc' = AppOutcome(pc, summary_df)
    /\ UNCHANGED <<analysis_type, sheet_names, peak_prominence, num_peaks, i, read_ok,
                   rows_left, data, results_list, fit_log, summary_results,
                   sorted_indices, closest_idx, prominent_peaks, peak_details,
                   summary_df, figure_paths>>

----------------------------------------------------------------------------
(* Specifications *)

RowBudget(type) ==
    IF type = "XRD" THEN MaxXrdRows
    ELSE IF type = "FTIR" THEN MaxFtirRows
    ELSE MaxFitRows

\* peak_prominence and num_peaks as the front end leaves them: the defaults.
DefaultProminence == 100
DefaultNumPeaks == 15

InitCommon ==
    /\ rows_left = RowBudget(analysis_type)
    /\ pc = "loop"
    /\ i = 1
    /\ read_ok = TRUE
    /\ data = <<>>
    /\ results_list = <<>>
    /\ fit_log = <<>>
    /\ summary_results = <<>>
    /\ sorted_indices = <<>>
    /\ closest_idx = <<>>
    /\ prominent_peaks = <<>>
    /\ peak_details = <<>>
    /\ summary_df = None
    /\ figure_paths = <<>>

InitFit ==
    /\ analysis_type \in {"Kinetics", "Isotherm"}
    /\ peak_prominence = DefaultProminence
    /\ num_peaks = DefaultNumPeaks
    /\ sheet_names \in FitWorkbooks
    /\ InitCommon

NextFit == KineticSheet \/ IsothermSheet \/ FitFinish \/ AppDisplay

SpecFit == InitFit /\ [][NextFit]_vars

\* The front end calling run_ftir_analysis
InitFtir ==
    /\ analysis_type = "FTIR"
    /\ peak_prominence = DefaultProminence
    /\ num_peaks = DefaultNumPeaks
    /\ sheet_names \in Workbooks
    /\ InitCommon

NextFtir == FtirSheet \/ FtirFinish \/ AppDisplay

SpecFtir == InitFtir /\ [][NextFtir]_vars

\* The front end calling run_xrd_analysis: both parameters at their defaults
InitXrd ==
    /\ analysis_type = "XRD"
    /\ peak_prominence = DefaultProminence
    /\ num_peaks = DefaultNumPeaks
    /\ sheet_names \in Workbooks
    /\ InitCommon

NextXrd == XrdSheet \/ XrdFinish \/ AppDisplay

SpecXrd == InitXrd /\ [][NextXrd]_vars

\* run_xrd_analysis called on a workbook of one sheet with any prominence
\* threshold and any num_peaks
Thresholds == {100, 200}
PeakCounts == {0, 1, 2, 15}

InitPeaks ==
    /\ analysis_type = "XRD"
    /\ peak_prominence \in Thresholds
    /\ num_peaks \in PeakCounts
    /\ sheet_names = <<1>>
    /\ InitCommon

SpecPeaks == InitPeaks /\ [][NextXrd]_vars

\* The whole program: any analysis type chosen in the front end
Init == InitFit \/ InitFtir \/ InitXrd

Next == KineticSheet \/ IsothermSheet \/ FitFinish \/ FtirSheet \/ FtirFinish
           \/ XrdSheet \/ XrdFinish \/ AppDisplay

Spec == Init /\ [][Next]_vars

\* The two spectral entry points behind the front end
InitSpectral == InitFtir \/ InitXrd

NextSpectral == FtirSheet \/ FtirFinish \/ XrdSheet \/ XrdFinish \/ AppDisplay

SpecSpectral == InitSpectral /\ [][NextSpectral]_vars

----------------------------------------------------------------------------
(* Properties *)

FitPaths == {"Kinetics", "Isotherm"}

Catalog(type) ==
    IF type = "Kinetics" THEN <<"Pseudo First Order", "Pseudo Second Order">>
    ELSE <<"Langmuir", "Freundlich">>

Attempted(sheet, model) ==
    \E k \in 1..Len(fit_log) : fit_log[k].Sheet = sheet /\ fit_log[k].Model = model

Succeeded(sheet, model) ==
    \E k \in 1..Len(fit_log) :
        fit_log[k].Sheet = sheet /\ fit_log[k].Model = model /\ fit_log[k].ok

\* The position of v in the sequence s (v occurs in s)
IndexIn(s, v) == MinOf({k \in 1..Len(s) : s[k] = v})

\* The sheet read last has been read and holds no valid point after cleaning
ZeroValidPoints ==
    /\ read_ok
    /\ (i > 1 \/ pc \in {"raised", "error"})
    /\ IF analysis_type \in FitPaths
       THEN DropNa(Column(data, "x")) = <<>> \/ DropNa(Column(data, "y")) = <<>>
       ELSE data = <<>>

\* C1: when the fit of one model raises on a sheet, the other model of the
\* path has been tried on that sheet too, and its record is in the results
\* when it returned.
C1_OtherModelStillAttempted ==
    \A k \in 1..Len(fit_log) :
        ~fit_log[k].ok =>
            \A c \in 1..2 :
                LET m == Catalog(analysis_type)[c]
                IN  /\ Attempted(fit_log[k].Sheet, m)
                    /\ Succeeded(fit_log[k].Sheet, m) =>
                          \E j \in 1..Len(results_list) :
                              /\ results_list[j].Sheet = fit_log[k].Sheet
                              /\ results_list[j].Model = m

\* C2: a sheet with zero valid points after cleaning never makes the entry
\* point raise: the run goes on to the next sheet.
C2_NoSeriesFailureEscapes == ZeroValidPoints => pc \notin {"raised", "error"}

\* C3: when every sheet has been processed and no record was produced, the
\* entry point returns the empty-result value and the front end ends in
\* "No results to display", never in "An error occurred during analysis".
C3_EmptyResultIsNormalOutcome ==
    (/\ i > Len(sheet_names)
     /\ results_list = <<>>
     /\ summary_results = <<>>
     /\ pc \notin {"loop", "returned", "raised"}) => pc = "no_results"

\* C4: on the kinetics and isotherm paths the records are, in order, the
\* (sheet, model) pairs whose fit was run and returned: one record each, none
\* for a fit that raised, sheets in processing order and models in catalog
\* order within a sheet; the table returned holds exactly these records.
C4_OneRecordPerSuccessfulFit ==
    LET good == SelectSeq(fit_log, LAMBDA a : a.ok)
    IN  /\ Len(results_list) = Len(good)
        /\ \A k \in 1..Len(good) :
               /\ results_list[k].Sheet = good[k].Sheet
               /\ results_list[k].Model = good[k].Model
        /\ \A a, b \in 1..Len(results_list) :
               a < b =>
                   LET sa == IndexIn(sheet_names, results_list[a].Sheet)
                       sb == IndexIn(sheet_names, results_list[b].Sheet)
                       ma == IndexIn(Catalog(analysis_type), results_list[a].Model)
                       mb == IndexIn(Catalog(analysis_type), results_list[b].Model)
                   IN  sa < sb \/ (sa = sb /\ ma < mb)
        /\ pc \in {"returned", "summary", "no_results"} =>
               summary_df = IF results_list = <<>> THEN None
                            ELSE DataFrame(results_list)

\* A batch in which one sheet failed only for pseudo-second-order and another
\* sheet was fitted by pseudo-first-order, returned to the front end.
C4_Witness ==
    /\ analysis_type = "Kinetics"
    /\ pc = "summary"
    /\ \E s, t \in SheetIds :
        /\ s # t
        /\ Succeeded(s, "Pseudo First Order")
        /\ Attempted(s, "Pseudo Second Order")
        /\ ~Succeeded(s, "Pseudo Second Order")
        /\ Succeeded(t, "Pseudo First Order")

\* C10: every record of a constant series carries one designated
\* R-squared-undefined value, the same whatever the residual of the fit.
Constant(y) == y # <<>> /\ \A k \in 1..Len(y) : y[k] = y[1]

C10_ConstantSeriesSentinel ==
    \E sentinel \in {"nan", "-inf"} :
        \A k \in 1..Len(results_list) :
            (/\ i > 1
             /\ pc \notin {"raised", "error"}
             /\ results_list[k].Sheet = sheet_names[i - 1]
             /\ Constant(DropNa(Column(data, "y")))) =>
                results_list[k].R2.kind = sentinel

\* The intensity column of the XRD sheet read last, and its candidates: the
\* local maxima whose prominence is at least the threshold.
LastIntensity == Column(data, "y")
Candidates == FindPeaks(LastIntensity, peak_prominence)
Selected == {prominent_peaks[k] : k \in 1..Len(prominent_peaks)}
XrdSheetDone == analysis_type = "XRD" /\ read_ok /\ i > 1

\* C5: the peaks reported for a sheet are min(num_peaks, n) of its n
\* candidates, none of them less prominent than a candidate left out.
C5_TopMaxPeaksByProminence ==
    XrdSheetDone =>
        LET n == Len(Candidates)
        IN  /\ Len(prominent_peaks) = MinOf({num_peaks, n})
            /\ Cardinality(Selected) = Len(prominent_peaks)
            /\ \A p \in Selected : \E k \in 1..n : Candidates[k] = p
            /\ \A p \in Selected : \A k \in 1..n :
                   Candidates[k] \notin Selected =>
                       Prominence(LastIntensity, p) >=
                           Prominence(LastIntensity, Candidates[k])

\* C9 as claimed: every reported peak is an interior position strictly higher
\* than both of its immediate neighbours.
C9_StrictlyAboveBothNeighbours ==
    XrdSheetDone =>
        \A p \in Selected :
            /\ 1 < p
            /\ p < Len(LastIntensity)
            /\ LastIntensity[p - 1] < LastIntensity[p]
            /\ LastIntensity[p + 1] < LastIntensity[p]

\* C9 as amended: every reported peak is an interior position on a run of equal
\* samples (one sample, or a flat top) that has a strictly lower sample
\* immediately before it and immediately after it, and is the middle position
\* of that run, rounded down; on [0,1,5,1,0] exactly the position of 5 is
\* reported, with prominence 5.
C9_MiddleOfRunAboveBothSides ==
    /\ XrdSheetDone =>
           \A p \in Selected :
               /\ 1 < p
               /\ p < Len(LastIntensity)
               /\ \E l \in 2..p : \E r \in p..(Len(LastIntensity) - 1) :
                      /\ \A k \in l..r : LastIntensity[k] = LastIntensity[p]
                      /\ LastIntensity[l - 1] < LastIntensity[p]
                      /\ LastIntensity[r + 1] < LastIntensity[p]
                      /\ p = (l + r) \div 2
    /\ FindPeaks(<<0, 1, 5, 1, 0>>, 1) = <<3>>
    /\ Prominence(<<0, 1, 5, 1, 0>>, 3) = 5

\* A reported peak on a flat top, and one strictly above both neighbours
C9_Witness ==
    /\ XrdSheetDone
    /\ \E p \in Selected : LastIntensity[p + 1] = LastIntensity[p]
    /\ \E p \in Selected :
           LastIntensity[p - 1] < LastIntensity[p] /\ LastIntensity[p + 1] < LastIntensity[p]

\* Whether the rows are in the order of a summary table: sample ascending and,
\* within one sample, the y column descending.
SortedBySampleThenY(rows, ycol) ==
    \A a, b \in 1..Len(rows) :
        a < b =>
            \/ rows[a].Sample < rows[b].Sample
            \/ rows[a].Sample = rows[b].Sample /\ rows[a][ycol] >= rows[b][ycol]

YColumn == IF analysis_type = "XRD" THEN "Intensity" ELSE "Transmittance"

\* The number of records of rows equal to r
CountOf(rows, r) == Cardinality({k \in 1..Len(rows) : rows[k] = r})

\* C6: the table an FTIR or XRD run returns holds the records appended, sorted
\* by sample ascending and within a sample by intensity (transmittance)
\* descending; the peak list stored per XRD sheet is in intensity-descending
\* order.
C6_SummarySorted ==
    /\ (analysis_type \in {"XRD", "FTIR"} /\ pc \in {"returned", "summary"}) =>
           /\ ~summary_df.is_none
           /\ SortedBySampleThenY(summary_df.rows, YColumn)
           /\ Len(summary_df.rows) = Len(summary_results)
           /\ \A k \in 1..Len(summary_results) :
                  CountOf(summary_df.rows, summary_results[k]) =
                      CountOf(summary_results, summary_results[k])
    /\ analysis_type = "XRD" =>
           \A a, b \in 1..Len(peak_details) :
               a < b => peak_details[a].Intensity >= peak_details[b].Intensity

\* A returned FTIR table from a workbook whose second sheet sorts first, where
\* the records of one sample were appended with a lower transmittance before
\* a higher one.
C6_Witness ==
    /\ pc = "summary"
    /\ analysis_type = "FTIR"
    /\ sheet_names = <<2, 1>>
    /\ \E k \in 1..Len(summary_results) : summary_results[k].Sample = 1
    /\ \E a, b \in 1..Len(summary_results) :
           /\ a < b
           /\ summary_results[a].Sample = 2
           /\ summary_results[b].Sample = 2
           /\ summary_results[a].Transmittance < summary_results[b].Transmittance

\* The wavenumber column of the FTIR sheet read last, in the order supplied
LastAxis == Column(data, "x")
FtirSheetDone == analysis_type = "FTIR" /\ read_ok /\ i > 1 /\ data # <<>>
Distance(k, r) == Abs(LastAxis[k] - peaks[r].wavenumber)

\* The row of the sheet, in the order supplied, matched to reference r
MatchedRow(r) == sorted_indices[closest_idx[r]]

\* The first row of the axis as supplied among those nearest to reference r
FirstNearestRow(r) ==
    MinOf({k \in 1..Len(LastAxis) :
             \A j \in 1..Len(LastAxis) : Distance(k, r) <= Distance(j, r)})

\* C7 as claimed: each reference is matched to a row nearest to its target
\* and, when several axis values are equally near, to the value that comes
\* first in the axis as supplied.
C7_NearestFirstInSuppliedOrder ==
    FtirSheetDone =>
        \A r \in 1..Len(peaks) :
            /\ \A j \in 1..Len(LastAxis) : Distance(MatchedRow(r), r) <= Distance(j, r)
            /\ LastAxis[MatchedRow(r)] = LastAxis[FirstNearestRow(r)]

\* C7 as amended: each reference is matched to a row nearest to its target
\* and, among equally near axis values, to the largest one (the first in the
\* descending order the axis is sorted into before matching); the reported
\* wavenumber is that row's.  References 100 and 500 against the axis
\* [0,100,200,600] are matched to 100 and 600.
C7_NearestLargestOnTie ==
    /\ FtirSheetDone =>
           \A r \in 1..Len(peaks) :
               /\ \A j \in 1..Len(LastAxis) : Distance(MatchedRow(r), r) <= Distance(j, r)
               /\ \A j \in 1..Len(LastAxis) :
                      Distance(j, r) = Distance(MatchedRow(r), r) =>
                          LastAxis[j] <= LastAxis[MatchedRow(r)]
               /\ peak_details[r].Wavenumber = LastAxis[MatchedRow(r)]
    /\ \A o \in SortedIndices(<<0, 100, 200, 600>>) :
           LET axis == [k \in 1..4 |-> <<0, 100, 200, 600>>[o[k]]]
           IN  /\ axis[ArgMinDistance(axis, 100)] = 100
               /\ axis[ArgMinDistance(axis, 500)] = 600

\* A sheet with two axis values equally near a reference, the lower one
\* supplied first
C7_Witness ==
    /\ FtirSheetDone
    /\ \E r \in 1..Len(peaks) : \E j \in 1..Len(LastAxis) :
           /\ Distance(j, r) = Distance(MatchedRow(r), r)
           /\ LastAxis[j] < LastAxis[MatchedRow(r)]
           /\ j < MatchedRow(r)

\* C8: the table returned holds, for every sheet processed and every entry of
\* the reference list, exactly one record carrying that entry's label.
C8_OneLabelledRecordPerReference ==
    (analysis_type = "FTIR" /\ pc \in {"returned", "summary"}) =>
        \A s \in 1..(i - 1) : \A r \in 1..Len(peaks) :
            (\E k \in 1..Len(summary_df.rows) : summary_df.rows[k].Sample = sheet_names[s]) =>
                Cardinality({k \in 1..Len(summary_df.rows) :
                               /\ summary_df.rows[k].Sample = sheet_names[s]
                               /\ "Label" \in DOMAIN summary_df.rows[k]
                               /\ summary_df.rows[k].Label = peaks[r].label}) = 1

\* The rows of the sheet whose cell in the column is not missing, in row order:
\* the rows the values of DropNa(col) come from, position by position.
KeptRows(col) == SelectSeq([k \in 1..Len(col) |-> k], LAMBDA k : col[k] # NaN)

\* The sheet read last went through the loop body without raising and a fit was
\* called on its cleaned columns.
FitCalledOnLastSheet ==
    /\ analysis_type \in FitPaths
    /\ read_ok
    /\ i > 1
    /\ pc \notin {"raised", "error"}
    /\ \E k \in 1..Len(fit_log) : fit_log[k].Sheet = sheet_names[i - 1]

\* C11: the x and y sequences handed to a fit have equal length and the k-th x
\* and the k-th y come from the same row of the sheet, whichever cells are
\* missing.
C11_CleanedPairsFromSameRow ==
    FitCalledOnLastSheet =>
        /\ Len(DropNa(Column(data, "x"))) = Len(DropNa(Column(data, "y")))
        /\ KeptRows(Column(data, "x")) = KeptRows(Column(data, "y"))

\* The sheets with a record in the table returned, and those with a figure path
SheetsInSummary == {summary_df.rows[k].Sheet : k \in 1..Len(summary_df.rows)}
SheetsWithFigure == {figure_paths[k].sheet : k \in 1..Len(figure_paths)}

\* C12: after run_kinetic_fitting returns, a sheet has a record in the summary
\* exactly when its figure path Kinetic_Fit_<sheet> is in figure_paths, and the
\* figure paths are in the order the sheets were processed.
C12_FiguresMatchSummary ==
    (analysis_type = "Kinetics" /\ pc \in {"returned", "summary", "no_results"}) =>
        /\ \A s \in SheetsInSummary :
               \E k \in 1..Len(figure_paths) :
                   figure_paths[k] = Figure("Kinetic_Fit", s)
        /\ SheetsWithFigure \subseteq SheetsInSummary
        /\ \A a, b \in 1..Len(figure_paths) :
               a < b => IndexIn(sheet_names, figure_paths[a].sheet)
                            < IndexIn(sheet_names, figure_paths[b].sheet)

====
